---- MODULE Spec2Model ----
(***************************************************************************)
(* Model of lodestone-inside (src/src/lib.rs): the point-in-polygon        *)
(* predicate `inside`, the winding-number ring test `in_ring`, and the     *)
(* side-of-line helpers `is_left`, `is_right`, `relative_pos`.             *)
(*                                                                         *)
(* Coordinates are f64 in the source.  The model keeps the arithmetic of   *)
(* a binary floating-point format with round-to-nearest-even and gradual   *)
(* underflow, scaled down: a value is an integer count of the smallest     *)
(* positive subnormal, which is 2^-Scale (f64: 2^-1074), and carries at    *)
(* most Precision significant bits (f64: 53).  Overflow, infinities and    *)
(* NaN are outside the model: coordinates are finite and small.            *)
(***************************************************************************)
EXTENDS Integers, Sequences, FiniteSets, TLC

\* ---- bounds of the model ----
Precision == 3        \* significant bits of the scaled-down float format
Scale == 1            \* the smallest positive subnormal is 2^-Scale
MaxCoord == 2         \* ring and polygon vertices lie on 0..MaxCoord (in units)
MaxLineCoord == 4     \* points of the side-of-line calls lie on 0..MaxLineCoord
MaxVerts == 3         \* longest arbitrary ring handed to in_ring
MaxHoles == 2         \* most holes of a polygon handed to inside

VARIABLES
  pt,          \* the query point <<x, y>>          (pt_coords, lib.rs:29)
  poly,        \* the polygon: a sequence of rings  (poly_coords, lib.rs:30)
  pc,          \* position of the call in progress
  iter,        \* number of rings the iterator has yielded (iter, lib.rs:33)
  inside_poly, \* the local of inside               (lib.rs:34)
  tested,      \* history: indices of the rings in_ring was called on, in order
  ret,         \* <<>> until inside returns, then <<b>>
  ring,        \* argument of a direct in_ring call
  wn,          \* <<>> until in_ring finishes, then <<final winding counter>>
  ring_ret,    \* <<>> until in_ring returns, then <<b>>
  line,        \* argument of a direct is_left / is_right / relative_pos call
  pos_ret,     \* <<>> until relative_pos returns, then <<value>>
  left_ret,    \* <<>> until is_left returns, then <<b>>
  right_ret    \* <<>> until is_right returns, then <<b>>

vars == <<pt, poly, pc, iter, inside_poly, tested, ret, ring, wn, ring_ret,
          line, pos_ret, left_ret, right_ret>>

\* ---- f64 arithmetic, scaled down ----
Pow2(n) == 2 ^ n

Abs(x) == IF x < 0 THEN -x ELSE x

\* exponent of the spacing of representable values around q / 2^sh
RECURSIVE Expo(_, _, _)
Expo(q, sh, e) == IF q < Pow2(Precision + e + sh) THEN e ELSE Expo(q, sh, e + 1)

\* q / 2^sh rounded to the nearest representable value, ties to even
RoundF(q, sh) ==
  LET a  == Abs(q)
      e  == Expo(a, sh, 0)
      d  == Pow2(sh + e)
      lo == a \div d
      r  == a % d
      m  == IF 2 * r > d \/ (2 * r = d /\ lo % 2 = 1) THEN lo + 1 ELSE lo
  IN  IF q < 0 THEN -(m * Pow2(e)) ELSE m * Pow2(e)

\* a - b on f64
f64_sub(a, b) == RoundF(a - b, 0)

\* a * b on f64: both operands are counts of 2^-Scale
f64_mul(a, b) == RoundF(a * b, Scale)

\* the values an f64 can hold
Representable(n) == RoundF(n, 0) = n

\* ---- lib.rs:98-105 ----
relative_pos(p, l) ==
  LET x1 == l[1][1]
      y1 == l[1][2]
      x2 == l[2][1]
      y2 == l[2][2]
  IN  f64_sub(f64_mul(f64_sub(x2, x1), f64_sub(p[2], y1)),
              f64_mul(f64_sub(y2, y1), f64_sub(p[1], x1)))

\* is_left with the comparison widened to >=: a point on the line counts as left
is_left_or_on(p, l) == relative_pos(p, l) >= 0

\* ---- lib.rs:77-82 ----
is_left(p, l) == relative_pos(p, l) > 0

\* ---- lib.rs:85-90 ----
is_right(p, l) == relative_pos(p, l) < 0

\* ---- lib.rs:57-70: the body of the loop, as the change of wn ----
crossing(p, edge) ==
  LET y1 == edge[1][2]
      y2 == edge[2][2]
  IN  IF y1 <= p[2] /\ y2 > p[2]
      THEN (IF is_left(p, edge) THEN 1 ELSE 0)
      ELSE IF y1 > p[2] /\ y2 <= p[2]
           THEN (IF is_right(p, edge) THEN -1 ELSE 0)
           ELSE 0

\* windows that also yields the closing pair (last vertex, first vertex)
windows_closed(r) ==
  [i \in 1 .. (IF Len(r) >= 2 THEN Len(r) ELSE 0) |->
     <<r[i], r[(i % Len(r)) + 1]>>]

\* ---- lib.rs:56: ring.windows(2), the consecutive vertex pairs in order ----
windows(r) == [i \in 1 .. (Len(r) - 1) |-> <<r[i], r[i + 1]>>]

\* ---- lib.rs:54-71: wn after the pairs from the i-th on, starting from acc ----
RECURSIVE winding(_, _, _, _)
winding(p, w, i, acc) ==
  IF i > Len(w) THEN acc
  ELSE winding(p, w, i + 1, acc + crossing(p, w[i]))

\* ---- lib.rs:54-73: the final value of wn ----
wn_of(p, r) == winding(p, windows(r), 1, 0)

\* in_ring that takes a one-vertex ring to hold exactly its own vertex
in_ring_vertex(p, r) == IF Len(r) = 1 THEN p = r[1] ELSE wn_of(p, r) # 0

\* ---- lib.rs:50-74 ----
in_ring(p, r) == wn_of(p, r) # 0

\* ---- inputs ----
Reverse(s) == [i \in 1 .. Len(s) |-> s[Len(s) + 1 - i]]

Coords == {n \in 0 .. MaxCoord : Representable(n)}
Points == Coords \X Coords

LineCoords == {n \in 0 .. MaxLineCoord : Representable(n)}
LinePoints == LineCoords \X LineCoords

\* ---- direct calls of the helpers (lib.rs:77-105) ----
InitLine ==
  /\ pt \in LinePoints
  /\ line \in LinePoints \X LinePoints
  /\ pc = "line"
  /\ pos_ret = <<>> /\ left_ret = <<>> /\ right_ret = <<>>
  /\ poly = <<>> /\ iter = 0 /\ inside_poly = FALSE /\ tested = <<>> /\ ret = <<>>
  /\ ring = <<>> /\ wn = <<>> /\ ring_ret = <<>>

CallRelativePos ==
  /\ pc = "line" /\ pos_ret = <<>>
  /\ pos_ret' = <<relative_pos(pt, line)>>
  /\ UNCHANGED <<pt, poly, pc, iter, inside_poly, tested, ret, ring, wn,
                 ring_ret, line, left_ret, right_ret>>

CallIsLeft ==
  /\ pc = "line" /\ left_ret = <<>>
  /\ left_ret' = <<is_left(pt, line)>>
  /\ UNCHANGED <<pt, poly, pc, iter, inside_poly, tested, ret, ring, wn,
                 ring_ret, line, pos_ret, right_ret>>

CallIsRight ==
  /\ pc = "line" /\ right_ret = <<>>
  /\ right_ret' = <<is_right(pt, line)>>
  /\ UNCHANGED <<pt, poly, pc, iter, inside_poly, tested, ret, ring, wn,
                 ring_ret, line, pos_ret, left_ret>>

NextLine == CallRelativePos \/ CallIsLeft \/ CallIsRight

SpecLine == InitLine /\ [][NextLine]_vars

\* ---- rings handed to in_ring ----
\* every sequence of at most MaxVerts vertices, closed or not
OpenRings == UNION {[1 .. n -> Points] : n \in 0 .. MaxVerts}

\* every closed ring of three vertices, degenerate ones included
ClosedTriangles == {<<a, b, c, a>> : a \in Points, b \in Points, c \in Points}

\* the closed rectangle with corners (a,b), (c,b), (c,d), (a,d), from (a,b)
Rect(a, b, c, d) == <<<<a, b>>, <<c, b>>, <<c, d>>, <<a, d>>, <<a, b>>>>

\* the closed ring r started k corners later
Rotate(r, k) ==
  LET n == Len(r) - 1
  IN  [i \in 1 .. Len(r) |-> r[((i - 1 + k) % n) + 1]]

Rectangles ==
  {Rotate(Rect(a, b, c, d), k) :
     a \in Coords, b \in Coords, c \in Coords, d \in Coords, k \in 0 .. 3}

Rects == {r \in Rectangles : r[1][1] # r[3][1] /\ r[1][2] # r[3][2]}

RingInputs == OpenRings \cup ClosedTriangles \cup Rects \cup {Reverse(r) : r \in Rects}

\* ---- a direct call of in_ring (lib.rs:50-74) ----
InitRing ==
  /\ pt \in Points
  /\ ring \in RingInputs
  /\ pc = "in_ring"
  /\ wn = <<>> /\ ring_ret = <<>>
  /\ poly = <<>> /\ iter = 0 /\ inside_poly = FALSE /\ tested = <<>> /\ ret = <<>>
  /\ line = <<>> /\ pos_ret = <<>> /\ left_ret = <<>> /\ right_ret = <<>>

CallInRing ==
  /\ pc = "in_ring"
  /\ wn' = <<wn_of(pt, ring)>>
  /\ ring_ret' = <<in_ring(pt, ring)>>
  /\ pc' = "in_ring_done"
  /\ UNCHANGED <<pt, poly, iter, inside_poly, tested, ret, ring, line, pos_ret,
                 left_ret, right_ret>>

NextRing == CallInRing

SpecRing == InitRing /\ [][NextRing]_vars

\* ---- polygons handed to inside ----
\* rings of a polygon: the empty ring, a one-vertex ring, and the rectangles
\* from the origin that span the full width or the full height of the grid
PolyRings ==
  {<<>>, <<(<<0, 0>>)>>} \cup
  {Rect(0, 0, MaxCoord, d) : d \in Coords \ {0}} \cup
  {Rect(0, 0, c, MaxCoord) : c \in Coords \ {0}}

Polygons == UNION {[1 .. n -> PolyRings] : n \in 0 .. (1 + MaxHoles)}

\* ---- inside (lib.rs:25-47) ----
Init ==
  /\ pt \in Points
  /\ poly \in Polygons
  /\ pc = "call"
  /\ iter = 0 /\ inside_poly = FALSE /\ tested = <<>> /\ ret = <<>>
  /\ ring = <<>> /\ wn = <<>> /\ ring_ret = <<>>
  /\ line = <<>> /\ pos_ret = <<>> /\ left_ret = <<>> /\ right_ret = <<>>

\* the shell defaulted instead of unwrapped: no rings, so "outside" is returned
UnwrapNone_Default ==
  /\ pc = "call"
  /\ Len(poly) = 0
  /\ pc' = "return"
  /\ UNCHANGED <<pt, poly, iter, inside_poly, tested, ret, ring, wn, ring_ret,
                 line, pos_ret, left_ret, right_ret>>

\* lib.rs:33-34 on a polygon without rings: iter.next() is None, unwrap panics
UnwrapNone ==
  /\ pc = "call"
  /\ Len(poly) = 0
  /\ pc' = "panic"
  /\ UNCHANGED <<pt, poly, iter, inside_poly, tested, ret, ring, wn, ring_ret,
                 line, pos_ret, left_ret, right_ret>>

\* lib.rs:33-34: the iterator yields the shell, in_ring tests it
TestShell ==
  /\ pc = "call"
  /\ Len(poly) > 0
  /\ iter' = 1
  /\ inside_poly' = in_ring(pt, poly[1])
  /\ tested' = Append(tested, 1)
  /\ pc' = "shell_tested"
  /\ UNCHANGED <<pt, poly, ret, ring, wn, ring_ret, line, pos_ret, left_ret,
                 right_ret>>

\* lib.rs:37: outside the shell, the holes are skipped
SkipHoles ==
  /\ pc = "shell_tested"
  /\ ~inside_poly
  /\ pc' = "return"
  /\ UNCHANGED <<pt, poly, iter, inside_poly, tested, ret, ring, wn, ring_ret,
                 line, pos_ret, left_ret, right_ret>>

\* lib.rs:37-38: inside the shell, the loop over the holes is entered
EnterHoles ==
  /\ pc = "shell_tested"
  /\ inside_poly
  /\ pc' = "holes"
  /\ UNCHANGED <<pt, poly, iter, inside_poly, tested, ret, ring, wn, ring_ret,
                 line, pos_ret, left_ret, right_ret>>

\* the loop over the holes without `inside_poly = false`
TestHole_KeepInside ==
  /\ pc = "holes"
  /\ iter < Len(poly)
  /\ iter' = iter + 1
  /\ tested' = Append(tested, iter + 1)
  /\ inside_poly' = inside_poly
  /\ pc' = IF in_ring(pt, poly[iter + 1]) THEN "return" ELSE "holes"
  /\ UNCHANGED <<pt, poly, ret, ring, wn, ring_ret, line, pos_ret, left_ret,
                 right_ret>>

\* the loop over the holes without `break`
TestHole_NoBreak ==
  /\ pc = "holes"
  /\ iter < Len(poly)
  /\ iter' = iter + 1
  /\ tested' = Append(tested, iter + 1)
  /\ inside_poly' = (inside_poly /\ ~in_ring(pt, poly[iter + 1]))
  /\ pc' = "holes"
  /\ UNCHANGED <<pt, poly, ret, ring, wn, ring_ret, line, pos_ret, left_ret,
                 right_ret>>

\* lib.rs:38-43: the iterator yields the next hole, in_ring tests it; a hole
\* that holds the point clears inside_poly and breaks out of the loop
TestHole ==
  /\ pc = "holes"
  /\ iter < Len(poly)
  /\ iter' = iter + 1
  /\ tested' = Append(tested, iter + 1)
  /\ IF in_ring(pt, poly[iter + 1])
       THEN inside_poly' = FALSE /\ pc' = "return"
       ELSE inside_poly' = inside_poly /\ pc' = "holes"
  /\ UNCHANGED <<pt, poly, ret, ring, wn, ring_ret, line, pos_ret, left_ret,
                 right_ret>>

\* lib.rs:38: the iterator is exhausted, the loop ends
HolesDone ==
  /\ pc = "holes"
  /\ iter = Len(poly)
  /\ pc' = "return"
  /\ UNCHANGED <<pt, poly, iter, inside_poly, tested, ret, ring, wn, ring_ret,
                 line, pos_ret, left_ret, right_ret>>

\* lib.rs:46
Return ==
  /\ pc = "return"
  /\ ret' = <<inside_poly>>
  /\ pc' = "done"
  /\ UNCHANGED <<pt, poly, iter, inside_poly, tested, ring, wn, ring_ret, line,
                 pos_ret, left_ret, right_ret>>

Next ==
  \/ UnwrapNone
  \/ TestShell
  \/ SkipHoles
  \/ EnterHoles
  \/ TestHole
  \/ HolesDone
  \/ Return

Spec == Init /\ [][Next]_vars

\* ======================= properties =======================

\* (x2-x1)*(py-y1) - (y2-y1)*(px-x1) over the integers: the side of p in exact
\* arithmetic
ExactCross(p, l) ==
  (l[2][1] - l[1][1]) * (p[2] - l[1][2]) - (l[2][2] - l[1][2]) * (p[1] - l[1][1])

Holes == 2 .. Len(poly)

\* C1: once inside has returned, its result is true exactly when in_ring holds
\* of the shell (ring 1) and of no hole (rings 2..), whatever the number, the
\* order and the overlap of the holes.
C1_ShellAndNoHole ==
  pc = "done" =>
    ret = <<in_ring(pt, poly[1]) /\ \A i \in Holes : ~in_ring(pt, poly[i])>>

\* inside has returned false for a point in the shell, outside the first hole
\* and inside the second
C1_Witness ==
  /\ pc = "done" /\ ret = <<FALSE>> /\ Len(poly) = 3
  /\ in_ring(pt, poly[1]) /\ ~in_ring(pt, poly[2]) /\ in_ring(pt, poly[3])

\* the pairs C2 counts, by the index of their first vertex
PairsOf(r) == 1 .. (Len(r) - 1)

UpPairs(p, r) ==
  {i \in PairsOf(r) :
     /\ r[i][2] <= p[2] /\ p[2] < r[i + 1][2]
     /\ relative_pos(p, <<r[i], r[i + 1]>>) > 0}

DownPairs(p, r) ==
  {i \in PairsOf(r) :
     /\ r[i][2] > p[2] /\ p[2] >= r[i + 1][2]
     /\ relative_pos(p, <<r[i], r[i + 1]>>) < 0}

\* C2: for a ring of at least 2 vertices in_ring returns U - D # 0, with U and D
\* counted over the n-1 consecutive pairs only (no closing pair), cross being
\* the value relative_pos computes; every other pair, every horizontal pair
\* among them, leaves the counter as it is.
C2_CountsConsecutivePairs ==
  (pc = "in_ring_done" /\ Len(ring) >= 2) =>
    LET U == UpPairs(pt, ring)
        D == DownPairs(pt, ring)
    IN  /\ wn = <<Cardinality(U) - Cardinality(D)>>
        /\ ring_ret = <<wn[1] # 0>>
        /\ \A i \in PairsOf(ring) \ (U \cup D) :
             crossing(pt, <<ring[i], ring[i + 1]>>) = 0
        /\ \A i \in PairsOf(ring) :
             ring[i][2] = ring[i + 1][2] => i \notin U \cup D

\* in_ring has returned true on an unclosed ring with a horizontal pair whose
\* closing pair would have cancelled the count
C2_Witness ==
  /\ pc = "in_ring_done" /\ Len(ring) = 3 /\ ring[1] # ring[3]
  /\ ring_ret = <<TRUE>>
  /\ \E i \in PairsOf(ring) : ring[i][2] = ring[i + 1][2] /\ ring[i] # ring[i + 1]
  /\ crossing(pt, <<ring[3], ring[1]>>) # 0

\* the simple rings among RingInputs: proper triangles and rectangles
SimpleRing(r) ==
  \/ r \in ClosedTriangles /\ ExactCross(r[3], <<r[1], r[2]>>) # 0
  \/ r \in Rects
  \/ Reverse(r) \in Rects

\* C3: on a simple ring, in_ring gives the same result for the ring and for the
\* ring with its vertices reversed, and the winding counter of the reversed
\* ring is the negation of the counter of the ring.
C3_OrientationInvariance ==
  (pc = "in_ring_done" /\ SimpleRing(ring)) =>
    /\ ring_ret = <<in_ring(pt, Reverse(ring))>>
    /\ wn = <<-wn_of(pt, Reverse(ring))>>

\* C4: on a polygon without rings inside never returns and tests no ring: the
\* call is either not yet made or has panicked at the unwrap.
C4_EmptyPolygonPanics ==
  Len(poly) = 0 => (ret = <<>> /\ tested = <<>> /\ pc \in {"call", "panic"})

\* inside was called on a polygon without rings and has panicked
C4_Witness == Len(poly) = 0 /\ pc = "panic" /\ ret = <<>>

\* the number of ring tests a call makes: 1 outside the shell, up to the first
\* hole holding the point otherwise, all rings when no hole holds it
TestsDue ==
  IF ~in_ring(pt, poly[1]) THEN 1
  ELSE IF \E i \in Holes : in_ring(pt, poly[i])
       THEN CHOOSE i \in Holes :
              in_ring(pt, poly[i]) /\ \A j \in 2 .. (i - 1) : ~in_ring(pt, poly[j])
       ELSE Len(poly)

\* C5: the rings in_ring is called on are ring 1, 2, 3, ... in this order, each
\* once, never past the number of rings, stopping after the shell when the
\* point is outside it and at the first hole that holds the point otherwise.
C5_TestOrder ==
  /\ tested = [i \in 1 .. Len(tested) |-> i]
  /\ Len(tested) <= Len(poly)
  /\ Len(poly) > 0 => Len(tested) <= TestsDue
  /\ pc \in {"return", "done"} => Len(tested) = TestsDue

\* inside has returned after the first of two holes held the point: the second
\* hole, which holds it too, was never tested
C5_Witness ==
  /\ pc = "done" /\ Len(poly) = 3 /\ tested = <<1, 2>>
  /\ in_ring(pt, poly[3])

\* C6: for pt, v1, v2 not collinear, is_left(pt, [v1,v2]) = is_right(pt, [v2,v1])
\* and relative_pos(pt, [v2,v1]) = -relative_pos(pt, [v1,v2]).
C6_Antisymmetry ==
  (ExactCross(pt, line) # 0 /\ left_ret # <<>> /\ pos_ret # <<>>) =>
    /\ left_ret = <<is_right(pt, Reverse(line))>>
    /\ pos_ret = <<-relative_pos(pt, Reverse(line))>>

\* C7: when relative_pos is 0, is_left and is_right both return false; and
\* is_left and is_right never both return true.
C7_OnLineIsNeither ==
  /\ (pos_ret = <<0>> /\ left_ret # <<>>) => left_ret = <<FALSE>>
  /\ (pos_ret = <<0>> /\ right_ret # <<>>) => right_ret = <<FALSE>>
  /\ ~(left_ret = <<TRUE>> /\ right_ret = <<TRUE>>)

\* the three helpers have returned for a point strictly between the two
\* distinct end points of the line
C7_Witness ==
  /\ pos_ret = <<0>> /\ left_ret = <<FALSE>> /\ right_ret = <<FALSE>>
  /\ line[1] # line[2] /\ pt # line[1] /\ pt # line[2]
  /\ ExactCross(pt, line) = 0

Min(S) == CHOOSE x \in S : \A y \in S : x <= y
Max(S) == CHOOSE x \in S : \A y \in S : x >= y
Xs(r) == {r[i][1] : i \in 1 .. Len(r)}
Ys(r) == {r[i][2] : i \in 1 .. Len(r)}

\* C8: on a closed axis-aligned rectangle with corners (a,b) and (c,d), a < c,
\* b < d, in either vertex order and from any corner, in_ring is true exactly
\* when a <= px < c and b <= py < d.
C8_RectangleHalfOpen ==
  (pc = "in_ring_done" /\ (ring \in Rects \/ Reverse(ring) \in Rects)) =>
    ring_ret = <<(/\ Min(Xs(ring)) <= pt[1] /\ pt[1] < Max(Xs(ring))
                  /\ Min(Ys(ring)) <= pt[2] /\ pt[2] < Max(Ys(ring)))>>

OutsideBox(p, r) ==
  \/ p[1] < Min(Xs(r)) \/ p[1] > Max(Xs(r))
  \/ p[2] < Min(Ys(r)) \/ p[2] > Max(Ys(r))

\* C9: on a closed ring (first vertex = last vertex) in_ring is false for every
\* point outside the bounding box of the vertices.
C9_OutsideBoxIsOutside ==
  (/\ pc = "in_ring_done" /\ Len(ring) >= 1 /\ ring[1] = ring[Len(ring)]
   /\ OutsideBox(pt, ring)) =>
    ring_ret = <<FALSE>>

\* the hole whose test ended the loop, when there is one
Excluder == tested[Len(tested)]

\* C10: a ring of 0 or 1 vertices has no vertex pair and in_ring is false on it;
\* inside does not fail on a polygon with rings, returns false when the shell
\* has fewer than 2 vertices, and is never made false by a hole of fewer than 2
\* vertices.
C10_DegenerateRings ==
  /\ \A i \in 1 .. Len(poly) :
       Len(poly[i]) < 2 => (windows(poly[i]) = <<>> /\ ~in_ring(pt, poly[i]))
  /\ Len(poly) > 0 => pc # "panic"
  /\ (pc = "done" /\ Len(poly[1]) < 2) => ret = <<FALSE>>
  /\ (pc \in {"return", "done"} /\ ~inside_poly /\ Len(tested) >= 2)
       => Len(poly[Excluder]) >= 2

\* inside has returned true past a one-vertex hole at the point itself and an
\* empty hole
C10_Witness ==
  /\ pc = "done" /\ ret = <<TRUE>> /\ Len(poly) = 3
  /\ poly[2] = <<pt>> /\ poly[3] = <<>>

====
